---- MODULE Spec2Model ----
(***************************************************************************)
(* Model of computer_use_agent.py: the agent loop run_agent, the action    *)
(* executor execute_function_calls, the observation builder                *)
(* get_function_responses and the pure helpers they use.                   *)
(*                                                                         *)
(* Python values are modelled as records [t, n, den, s]:                   *)
(*   t = "num"  : the number n/den (den a power of two, so the value is an *)
(*                exact double; den = 1 is a Python int)                   *)
(*   t = "bool" : True (n = 1) or False (n = 0)                            *)
(*   t = "none" : None                                                     *)
(*   t = "str"  : the string whose code points are the sequence s          *)
(* Strings are sequences of Unicode code points.                           *)
(***************************************************************************)
EXTENDS Integers, Sequences, FiniteSets, TLC

(***************************************************************************)
(* Program constants                                                       *)
(***************************************************************************)
SCREEN_WIDTH == 1440
SCREEN_HEIGHT == 900
MAX_TURNS == 5
MAX_TYPABLE_CHARS == 1024
PAGE_SETTLE_DELAY_SECONDS == 1
LOAD_STATE_TIMEOUT_MS == 5000
SAFE_ACTIONS == {"open_web_browser", "click_at", "type_text_at"}

(***************************************************************************)
(* Bounds of the model                                                     *)
(***************************************************************************)
\* longest batch of function calls handed to execute_function_calls alone
MaxBatch == 2
\* most automation-surface failures injected into one run of the agent loop
MaxFaults == 2

(***************************************************************************)
(* Python values                                                           *)
(***************************************************************************)
Num(n, den) == [t |-> "num", n |-> n, den |-> den, s |-> <<>>]
IntV(n) == Num(n, 1)
BoolV(b) == [t |-> "bool", n |-> IF b THEN 1 ELSE 0, den |-> 1, s |-> <<>>]
NoneV == [t |-> "none", n |-> 0, den |-> 1, s |-> <<>>]
StrV(s) == [t |-> "str", n |-> 0, den |-> 1, s |-> s]

\* mapping.get(key, default)
Get(args, key, default) == IF key \in DOMAIN args THEN args[key] ELSE default

Pow2(k) == 2 ^ k

RECURSIVE ILog2(_)
\* floor(log2(n)) for n >= 1
ILog2(n) == IF n < 2 THEN 0 ELSE 1 + ILog2(n \div 2)

IsDigit(c) == c \in 48..57

RECURSIVE ParseDigits(_, _)
ParseDigits(s, acc) ==
    IF s = <<>> THEN acc ELSE ParseDigits(Tail(s), 10 * acc + (Head(s) - 48))

\* float(value) raises TypeError for None and ValueError for a string that is
\* no numeral (modelled for strings of decimal digits only)
FloatRaises(v) ==
    \/ v.t = "none"
    \/ v.t = "str" /\ (v.s = <<>> \/ \E i \in 1..Len(v.s) : ~IsDigit(v.s[i]))

\* float(value) as the fraction <<numerator, denominator>>
FloatOf(v) ==
    IF v.t = "str" THEN <<ParseDigits(v.s, 0), 1>> ELSE <<v.n, v.den>>

(***************************************************************************)
(* denormalize_coordinate: int(clamped / 1000.0 * dimension) in IEEE-754   *)
(* double arithmetic.  With clamped = num/den and D = 1000 * den, the      *)
(* quotient clamped / 1000.0 is num/D rounded to 53 significant bits; the  *)
(* product with dimension is rounded again and truncated by int().         *)
(* When num * dimension / D is no integer the two roundings (relative      *)
(* error below 2^-51) cannot cross an integer, the fraction being at       *)
(* least 1/D away from one.  When it is an integer N, the result is N - 1  *)
(* exactly when the quotient was rounded down and the product falls        *)
(* closer to the double below N than to N.                                 *)
(***************************************************************************)
RECURSIVE QuotientExponent(_, _, _)
\* least k with num * 2^k >= D
QuotientExponent(num, D, k) ==
    IF num * Pow2(k) >= D THEN k ELSE QuotientExponent(num, D, k + 1)

\* r * 2^13 mod D
Shift13(r, D) == (r * 8192) % D

\* the remainder left when num / D is cut to a 53-bit significand:
\* num * 2^(k + 52) mod D, the 52 doublings taken 13 at a time
QuotientRemainder(num, D) ==
    Shift13(Shift13(Shift13(Shift13((num * Pow2(QuotientExponent(num, D, 0))) % D, D), D), D), D)

\* the double product (num / D) * dimension, exactly N in the reals, rounds to N
ProductRoundsToExact(num, D, dimension, N) ==
    LET r == QuotientRemainder(num, D)
        k == QuotientExponent(num, D, 0)
        eN == ILog2(N)
        lim == D * Pow2(eN + k)
    IN  \/ r = 0
        \/ 2 * r > D
        \/ IF Pow2(eN) = N THEN 4 * r * dimension <= lim
                           ELSE 2 * r * dimension <= lim

ClampWrap(f) ==
    IF f[1] < 0 THEN <<0, 1>>
    ELSE IF f[1] > 1000 * f[2] THEN <<f[1] - 1000 * f[2], f[2]>>
    ELSE f

\* max(0.0, min(1000.0, float(value))) as a fraction
Clamp(f) ==
    IF f[1] < 0 THEN <<0, 1>>
    ELSE IF f[1] > 1000 * f[2] THEN <<1000, 1>>
    ELSE f

DenormalizeFraction(f, dimension) ==
    LET c == Clamp(f)
        num == c[1]
        D == 1000 * c[2]
        N == (num * dimension) \div D
    IN  IF (num * dimension) % D # 0 \/ N = 0 THEN N
        ELSE IF ProductRoundsToExact(num, D, dimension, N) THEN N
        ELSE N - 1

denormalize_coordinate(value, dimension) ==
    DenormalizeFraction(FloatOf(value), dimension)

(***************************************************************************)
(* sanitize_text                                                           *)
(***************************************************************************)
\* str.isprintable() on the code points the model uses: ASCII 32..126 and
\* Latin-1 161..255 except the soft hyphen are printable, as are HIRAGANA A
\* (12354) and GRINNING FACE (128512); the C0/C1 controls, DEL, NO-BREAK
\* SPACE (160), SOFT HYPHEN (173) and ZERO WIDTH SPACE (8203) are not.
isprintable(c) ==
    \/ c \in 32..126
    \/ c \in 161..172
    \/ c \in 174..255
    \/ c \in {12354, 128512}

NEWLINE == 10
CARRIAGE_RETURN == 13
TAB == 9

RECURSIVE Digits(_)
Digits(n) == IF n < 10 THEN <<48 + n>> ELSE Append(Digits(n \div 10), 48 + (n % 10))

\* str(text): the textual form of a value (numbers with den in {1, 2})
StrOf(v) ==
    CASE v.t = "str" -> v.s
      [] v.t = "bool" -> IF v.n = 1 THEN <<84, 114, 117, 101>>
                                    ELSE <<70, 97, 108, 115, 101>>
      [] v.t = "none" -> <<78, 111, 110, 101>>
      [] v.t = "num" ->
            LET a == IF v.n < 0 THEN -v.n ELSE v.n
                sign == IF v.n < 0 THEN <<45>> ELSE <<>>
            IN  IF v.den = 1 THEN sign \o Digits(a)
                ELSE sign \o Digits(a \div v.den) \o <<46>>
                          \o Digits(((a % v.den) * 10) \div v.den)

KeepCharPrintableOnly(c) == isprintable(c)

KeepChar(c) == isprintable(c) \/ c \in {NEWLINE, CARRIAGE_RETURN, TAB}

FilterChars(raw) == SelectSeq(raw, KeepChar)

Prefix(s, n) == IF Len(s) <= n THEN s ELSE SubSeq(s, 1, n)

sanitize_text(text) ==
    LET raw == IF text.t # "none" THEN StrOf(text) ELSE <<>>
    IN  Prefix(FilterChars(raw), MAX_TYPABLE_CHARS)

\* bool(value)
Truthy(v) ==
    CASE v.t = "bool" -> v.n = 1
      [] v.t = "none" -> FALSE
      [] v.t = "num" -> v.n # 0
      [] v.t = "str" -> v.s # <<>>

(***************************************************************************)
(* Model replies: parts, function calls, candidates                        *)
(***************************************************************************)
NoArgs == [k \in {} |-> NoneV]

\* a part holding text only (function_call is None)
TextPart(s) == [kind |-> "text", text |-> s, name |-> "", args |-> NoArgs]
\* a part holding a function call (text is None)
CallPart(fname, a) == [kind |-> "call", text |-> <<>>, name |-> fname, args |-> a]
\* a part holding neither (inline data): text is None and function_call is None
BlobPart == [kind |-> "blob", text |-> <<>>, name |-> "", args |-> NoArgs]
\* an object with no text attribute at all
BarePart == [kind |-> "bare", text |-> <<>>, name |-> "", args |-> NoArgs]

\* candidate.content: None, or a Content with its parts
NoContent == [none |-> TRUE, parts |-> <<>>]
Content(parts) == [none |-> FALSE, parts |-> parts]

IsCallPart(part) == part.kind = "call"

collect_function_calls(content) ==
    IF content.none THEN <<>> ELSE SelectSeq(content.parts, IsCallPart)

HasFunctionCallsFirstPartOnly(content) ==
    content.parts # <<>> /\ IsCallPart(content.parts[1])

\* any(getattr(part, "function_call", None) for part in parts)
has_function_calls(content) ==
    \E i \in 1..Len(content.parts) : IsCallPart(content.parts[i])

(***************************************************************************)
(* extract_text_response                                                   *)
(***************************************************************************)
\* str.isspace() on the code points the model uses
IsSpace(c) == c \in {9, 10, 11, 12, 13, 28, 29, 30, 31, 32, 133, 160}

RECURSIVE LStrip(_)
LStrip(s) == IF s # <<>> /\ IsSpace(Head(s)) THEN LStrip(Tail(s)) ELSE s

RECURSIVE RStrip(_)
RStrip(s) ==
    IF s # <<>> /\ IsSpace(s[Len(s)]) THEN RStrip(SubSeq(s, 1, Len(s) - 1)) ELSE s

Strip(s) == RStrip(LStrip(s))

\* getattr(part, "text", "") is None for a part whose text attribute is None:
\* None.strip() raises AttributeError
TextIsNone(part) == part.kind \in {"call", "blob"}

ExtractRaises(parts) == \E i \in 1..Len(parts) : TextIsNone(parts[i])

HasSnippet(part) == part.kind = "text" /\ Strip(part.text) # <<>>

RECURSIVE JoinSnippets(_)
JoinSnippets(parts) ==
    IF parts = <<>> THEN <<>>
    ELSE IF Len(parts) = 1 THEN Strip(parts[1].text)
    ELSE Strip(parts[1].text) \o <<32>> \o JoinSnippets(Tail(parts))

extract_text_response(parts) == JoinSnippets(SelectSeq(parts, HasSnippet))

(***************************************************************************)
(* Automation surface: the calls made on page, and time.sleep              *)
(***************************************************************************)
Call(op, x, y, key, text, arg) ==
    [op |-> op, x |-> x, y |-> y, key |-> key, text |-> text, arg |-> arg, ok |-> TRUE]

MouseClick(x, y) == Call("click", x, y, "", <<>>, 0)
KeyPress(key) == Call("press", 0, 0, key, <<>>, 0)
KeyType(text) == Call("type", 0, 0, "", text, 0)
WaitForLoadState == Call("wait_for_load_state", 0, 0, "", <<>>, LOAD_STATE_TIMEOUT_MS)
Sleep == Call("sleep", 0, 0, "", <<>>, PAGE_SETTLE_DELAY_SECONDS)
Screenshot == Call("screenshot", 0, 0, "", <<>>, 0)
ReadUrl == Call("url", 0, 0, "", <<>>, 0)
Goto == Call("goto", 0, 0, "", <<>>, 0)

\* str(exc) of the exception the automation surface raises from a call
ErrorMessage(call) == call.op \o " failed"

Raised(call) == [call EXCEPT !.ok = FALSE]

(***************************************************************************)
(* execute_function_calls: one iteration of its loop                       *)
(***************************************************************************)
IsSafeAcceptAll(fname) == TRUE

IsSafe(fname) == fname \in SAFE_ACTIONS

\* the coordinate arguments make denormalize_coordinate raise
MapperRaises(fname, args) ==
    /\ fname \in {"click_at", "type_text_at"}
    /\ FloatRaises(Get(args, "x", IntV(0))) \/ FloatRaises(Get(args, "y", IntV(0)))

PixelX(args, screen_width) == denormalize_coordinate(Get(args, "x", IntV(0)), screen_width)
PixelY(args, screen_height) == denormalize_coordinate(Get(args, "y", IntV(0)), screen_height)

ClickStepsSwappedDimensions(args, screen_width, screen_height) ==
    <<MouseClick(PixelX(args, screen_height), PixelY(args, screen_width))>>

ClickSteps(args, screen_width, screen_height) ==
    <<MouseClick(PixelX(args, screen_width), PixelY(args, screen_height))>>

TypeStepsRawText(args, screen_width, screen_height) ==
    LET text == Get(args, "text", StrV(<<>>))
        press_enter == Truthy(Get(args, "press_enter", BoolV(FALSE)))
    IN  << MouseClick(PixelX(args, screen_width), PixelY(args, screen_height)),
           KeyPress("Meta+A"),
           KeyPress("Backspace"),
           KeyType(IF text.t = "none" THEN <<>> ELSE StrOf(text)) >>
        \o (IF press_enter THEN <<KeyPress("Enter")>> ELSE <<>>)

TypeStepsAlwaysEnter(args, screen_width, screen_height) ==
    << MouseClick(PixelX(args, screen_width), PixelY(args, screen_height)),
       KeyPress("Meta+A"),
       KeyPress("Backspace"),
       KeyType(sanitize_text(Get(args, "text", StrV(<<>>)))),
       KeyPress("Enter") >>

TypeSteps(args, screen_width, screen_height) ==
    LET text == sanitize_text(Get(args, "text", StrV(<<>>)))
        press_enter == Truthy(Get(args, "press_enter", BoolV(FALSE)))
    IN  << MouseClick(PixelX(args, screen_width), PixelY(args, screen_height)),
           KeyPress("Meta+A"),
           KeyPress("Backspace"),
           KeyType(text) >>
        \o (IF press_enter THEN <<KeyPress("Enter")>> ELSE <<>>)

ActionStepsOpenClicks(fname, args, screen_width, screen_height) ==
    IF fname = "open_web_browser" THEN ClickSteps(args, screen_width, screen_height)
    ELSE IF fname = "click_at" THEN ClickSteps(args, screen_width, screen_height)
    ELSE IF fname = "type_text_at" THEN TypeSteps(args, screen_width, screen_height)
    ELSE <<>>

\* the automation calls of the action's own branch, in program order
ActionSteps(fname, args, screen_width, screen_height) ==
    IF fname = "open_web_browser" THEN <<>>
    ELSE IF fname = "click_at" THEN ClickSteps(args, screen_width, screen_height)
    ELSE IF fname = "type_text_at" THEN TypeSteps(args, screen_width, screen_height)
    ELSE <<>>

SettleStepsNoSleep == <<WaitForLoadState>>

\* page.wait_for_load_state(timeout=...) then time.sleep(...)
SettleSteps == <<WaitForLoadState, Sleep>>

\* every call the try block makes when nothing raises
TrySteps(fname, args, screen_width, screen_height) ==
    ActionSteps(fname, args, screen_width, screen_height) \o SettleSteps

\* the calls of the try block that may raise: all but time.sleep
CanRaise(call) == call.op # "sleep"

RecordResultDropErrors(res, fname, action_result) ==
    IF "error" \in DOMAIN action_result THEN res
    ELSE Append(res, [name |-> fname, result |-> action_result])

\* results.append((fname, action_result))
RecordResult(res, fname, action_result) ==
    Append(res, [name |-> fname, result |-> action_result])

\* the positions in the try block at which the automation surface may raise
FailPoints(fc) ==
    IF IsSafe(fc.name) /\ ~MapperRaises(fc.name, fc.args)
    THEN LET steps == TrySteps(fc.name, fc.args, SCREEN_WIDTH, SCREEN_HEIGHT)
         IN  {j \in 1..Len(steps) : CanRaise(steps[j])}
    ELSE {}

DispatchIgnoreWaitFailure(fc, failAt) ==
    IF ~IsSafe(fc.name)
    THEN [issued |-> <<>>, result |-> [error |-> "unsupported_function"]]
    ELSE IF MapperRaises(fc.name, fc.args)
    THEN [issued |-> <<>>, result |-> [error |-> "float() argument must be a number"]]
    ELSE LET steps == TrySteps(fc.name, fc.args, SCREEN_WIDTH, SCREEN_HEIGHT)
         IN  IF failAt = 0
             THEN [issued |-> steps, result |-> [status |-> "ok"]]
             ELSE [issued |-> SubSeq(steps, 1, failAt - 1) \o <<Raised(steps[failAt])>>,
                   result |-> IF steps[failAt].op = "wait_for_load_state"
                              THEN [status |-> "ok"]
                              ELSE [error |-> ErrorMessage(steps[failAt])]]

DispatchContinueAfterRaise(fc, failAt) ==
    IF ~IsSafe(fc.name)
    THEN [issued |-> <<>>, result |-> [error |-> "unsupported_function"]]
    ELSE IF MapperRaises(fc.name, fc.args)
    THEN [issued |-> <<>>, result |-> [error |-> "float() argument must be a number"]]
    ELSE LET steps == TrySteps(fc.name, fc.args, SCREEN_WIDTH, SCREEN_HEIGHT)
         IN  IF failAt = 0
             THEN [issued |-> steps, result |-> [status |-> "ok"]]
             ELSE [issued |-> [j \in 1..Len(steps) |->
                                  IF j = failAt THEN Raised(steps[j]) ELSE steps[j]],
                   result |-> [error |-> ErrorMessage(steps[failAt])]]

\* One iteration of the loop over the function calls: the automation calls it
\* issues and the result it records, when the call at position failAt of the
\* try block raises (failAt = 0: none does).
Dispatch(fc, failAt) ==
    IF ~IsSafe(fc.name)
    THEN [issued |-> <<>>, result |-> [error |-> "unsupported_function"]]
    ELSE IF MapperRaises(fc.name, fc.args)
    THEN [issued |-> <<>>, result |-> [error |-> "float() argument must be a number"]]
    ELSE LET steps == TrySteps(fc.name, fc.args, SCREEN_WIDTH, SCREEN_HEIGHT)
         IN  IF failAt = 0
             THEN [issued |-> steps, result |-> [status |-> "ok"]]
             ELSE [issued |-> SubSeq(steps, 1, failAt - 1) \o <<Raised(steps[failAt])>>,
                   result |-> [error |-> ErrorMessage(steps[failAt])]]

\* an issued call, tagged with the position of the function call it belongs to
\* (0: issued by get_function_responses, -1: by run_agent before its loop)
Tagged(issued, i) ==
    [j \in 1..Len(issued) |-> [call |-> issued[j], action |-> i]]

LogOverlapping(log, issued, i) ==
    IF log = <<>> THEN Tagged(issued, i)
    ELSE SubSeq(log, 1, Len(log) - 1) \o Tagged(issued, i) \o <<log[Len(log)]>>

\* The calls are made one after the other by one thread: those of a step
\* follow everything issued before it.
LogAfter(log, issued, i) == log \o Tagged(issued, i)

(***************************************************************************)
(* get_function_responses                                                  *)
(***************************************************************************)
DEFAULT_START_URL == "https://finance.yahoo.com/"
QUOTE_URL == "https://finance.yahoo.com/quote/NVDA/"

ScreenshotBytesStale(ok) == "png"

\* page.screenshot(type="png"), or b"" when it raised
ScreenshotBytes(ok) == IF ok THEN "png" ELSE ""

ObservationStepsPerResult(ok, res) ==
    IF res = <<>> THEN <<>>
    ELSE [j \in 1..(2 * Len(res)) |->
            IF j % 2 = 1 THEN (IF ok THEN Screenshot ELSE Raised(Screenshot)) ELSE ReadUrl]

\* the calls get_function_responses makes on the page: one screenshot (which
\* returns or raises) and one read of page.url, whatever the number of results
ObservationSteps(ok, res) ==
    <<IF ok THEN Screenshot ELSE Raised(Screenshot), ReadUrl>>

ResponsePayloadNoUrl(current_url, result) == result

\* response_payload = {"url": current_url}; response_payload.update(result)
ResponsePayload(current_url, result) == result @@ [url |-> current_url]

get_function_responses(screenshot_bytes, current_url, res) ==
    [i \in 1..Len(res) |->
        [name |-> res[i].name,
         response |-> ResponsePayload(current_url, res[i].result),
         mime_type |-> "image/png",
         data |-> screenshot_bytes]]

(***************************************************************************)
(* The conversation                                                        *)
(***************************************************************************)
UserPrompt == <<71, 111>>

\* the user's goal text plus the initial screenshot
SeedEntry ==
    [kind |-> "seed", role |-> "user",
     content |-> Content(<<TextPart(UserPrompt), BlobPart>>), responses |-> <<>>]
\* candidate.content as the model returned it
ReplyEntry(content) ==
    [kind |-> "reply", role |-> "model", content |-> content, responses |-> <<>>]
\* Content(role="user", parts=[Part(function_response=fr) ...])
ObservationEntry(frs) ==
    [kind |-> "observation", role |-> "user", content |-> NoContent, responses |-> frs]

AppendEntryKeepWindow(c, entry) == <<c[1], entry>>

\* contents.append(...)
AppendEntry(c, entry) == Append(c, entry)

VARIABLES
    logging,     \* the logging state of the process: LOGGER.handlers, the root logger
    run,         \* which call of run_agent in the process this is (0: none)
    io,          \* a call of a utility function on its own: arguments, results so far
    pc,          \* where run_agent (or execute_function_calls) stands
    api_key,     \* os.getenv("GEMINI_API_KEY")
    browser,     \* "none", "open" or "closed"
    closeCount,  \* number of browser.close() calls
    contents,    \* the conversation
    turn,        \* the loop variable of run_agent
    modelCalls,  \* number of client.models.generate_content calls
    candidate,   \* candidate.content of the current turn
    idx,         \* position of execute_function_calls in the function calls
    results,     \* results of execute_function_calls
    calls,       \* automation calls issued by the current execute_function_calls
    faults,      \* automation failures injected so far
    outcome,     \* how the loop ended
    raised,      \* the exception propagating out of run_agent, or "none"
    finalAnswer, \* the text logged by "Agent finished"
    actionsRun,  \* function calls execute_function_calls has processed in the run
    url,         \* page.url
    response     \* what the last model request did: "raise", "empty", "candidate"

vars == <<logging, run, io, pc, api_key, browser, closeCount, contents, turn, modelCalls, candidate,
          idx, results, calls, faults, outcome, raised, finalAnswer, actionsRun, url,
          response>>

\* no utility function is being called on its own
NoCall == [fn |-> "none", value |-> <<>>, dimension |-> 0, out |-> <<>>]

(***************************************************************************)
(* Inputs of the agent loop                                                *)
(***************************************************************************)
ApiKeys == {NoneV, StrV(<<>>), StrV(<<107>>)}

ClickCall == CallPart("click_at", [x |-> IntV(500), y |-> IntV(500)])
TypeCall ==
    CallPart("type_text_at",
             [x |-> IntV(175), y |-> IntV(1500), text |-> StrV(<<78, 0, 86>>),
              press_enter |-> BoolV(TRUE)])
ScrollCall == CallPart("scroll_document", NoArgs)

\* candidate.content of the replies the model gives in the agent loop
LoopContents ==
    { NoContent,
      Content(<<TextPart(<<32, 100, 111, 110, 101>>), TextPart(<<32>>), TextPart(<<46>>)>>),
      Content(<<TextPart(<<100, 111, 110, 101>>), BlobPart>>),
      Content(<<ClickCall>>),
      Content(<<TextPart(<<103, 111>>), TypeCall, ScrollCall>>) }

\* what client.models.generate_content does: raise, return no candidates, or
\* return a candidate
ModelResponses ==
    {[kind |-> "raise", content |-> NoContent], [kind |-> "empty", content |-> NoContent]}
    \cup {[kind |-> "candidate", content |-> c] : c \in LoopContents}

(***************************************************************************)
(* configure_logging.  The logging state of the process: the number of     *)
(* handlers of LOGGER (the logger of the module), the number of handlers   *)
(* of the root logger, how often configure_logging was called, how often   *)
(* it called logging.basicConfig, and how often that call installed the    *)
(* base configuration.                                                     *)
(***************************************************************************)
FreshLogging ==
    [handlers |-> 0, root |-> 0, configureCalls |-> 0, basicConfigCalls |-> 0, applied |-> 0]

\* logging.basicConfig(level=..., format=...): the library installs a handler
\* on the root logger, and does nothing when the root logger has handlers
basicConfig(l) ==
    [l EXCEPT !.basicConfigCalls = @ + 1,
              !.root = IF l.root = 0 THEN 1 ELSE @,
              !.applied = IF l.root = 0 THEN @ + 1 ELSE @]

AlreadyConfiguredNever(handlers) == FALSE

\* if LOGGER.handlers
AlreadyConfigured(handlers) == handlers # 0

configure_logging(l) ==
    LET called == [l EXCEPT !.configureCalls = @ + 1]
    IN  IF AlreadyConfigured(l.handlers) THEN called ELSE basicConfig(called)

(***************************************************************************)
(* run_agent                                                               *)
(***************************************************************************)
Init ==
    /\ pc = "start"
    /\ api_key \in ApiKeys
    /\ browser = "none"
    /\ closeCount = 0
    /\ contents = <<>>
    /\ turn = 0
    /\ modelCalls = 0
    /\ candidate = NoContent
    /\ idx = 0
    /\ results = <<>>
    /\ calls = <<>>
    /\ faults = 0
    /\ outcome = "none"
    /\ raised = "none"
    /\ finalAnswer = <<>>
    /\ actionsRun = 0
    /\ url = ""
    /\ response = "none"
    /\ io = NoCall
    /\ run = 1
    /\ logging = FreshLogging

KeyMissingNoneOnly(key) == key.t = "none"

\* if not api_key
KeyMissing(key) == ~Truthy(key)

\* configure_logging(); client = create_client()
Start ==
    /\ pc = "start"
    /\ IF KeyMissing(api_key)
       THEN raised' = "RuntimeError" /\ pc' = "done"
       ELSE raised' = raised /\ pc' = "launch"
    /\ logging' = configure_logging(logging)
    /\ UNCHANGED <<run, io, api_key, browser, closeCount, contents, turn, modelCalls, candidate,
                   idx, results, calls, faults, outcome, finalAnswer, actionsRun, url,
                   response>>

\* browser = playwright.chromium.launch(headless=headless), which may raise
Launch ==
    /\ pc = "launch"
    /\ \E ok \in BOOLEAN :
          IF ok
          THEN browser' = "open" /\ pc' = "navigate" /\ raised' = raised
          ELSE browser' = browser /\ pc' = "done" /\ raised' = "LaunchError"
    /\ UNCHANGED <<logging, run, io, api_key, closeCount, contents, turn, modelCalls, candidate,
                   idx, results, calls, faults, outcome, finalAnswer, actionsRun, url,
                   response>>

NavigateRaisesGotoOnly(how) == how = "goto"

\* page.goto and the first page.screenshot are not inside any try block of
\* run_agent but the one whose finally closes the browser: either failing
\* raises out of run_agent
NavigateRaises(how) == how # "ok"

\* the calls run_agent makes on the page before its loop
NavigateSteps(how) ==
    IF how = "goto" THEN <<Raised(Goto)>>
    ELSE IF how = "screenshot" THEN <<Goto, Raised(Screenshot)>>
    ELSE <<Goto, Screenshot>>

\* new_context, new_page, page.goto, page.screenshot and the seeding of the
\* conversation; goto and screenshot may raise
Navigate ==
    /\ pc = "navigate"
    /\ \E how \in {"ok", "goto", "screenshot"} :
          /\ calls' = LogAfter(<<>>, NavigateSteps(how), -1)
          /\ IF ~NavigateRaises(how)
             THEN /\ contents' = <<SeedEntry>>
                  /\ turn' = 1
                  /\ url' = DEFAULT_START_URL
                  /\ pc' = "turn"
                  /\ raised' = raised
             ELSE /\ raised' = (IF how = "goto" THEN "NavigationError" ELSE "ScreenshotError")
                  /\ url' = (IF how = "goto" THEN url ELSE DEFAULT_START_URL)
                  /\ pc' = "cleanup"
                  /\ UNCHANGED <<contents, turn>>
    /\ UNCHANGED <<logging, run, io, api_key, browser, closeCount, modelCalls, candidate,
                   idx, results, faults, outcome, finalAnswer, actionsRun,
                   response>>

LoopHasNextOffByOne(t) == t <= MAX_TURNS

\* for turn in range(1, MAX_TURNS + 1): another value follows t
LoopHasNext(t) == t < MAX_TURNS

AfterModelErrorContinue(t) == "turn"

\* the break after a failed model request
AfterModelError(t) == "cleanup"

AfterNoCandidatesContinue(t) == "turn"

\* the break after a response without candidates
AfterNoCandidates(t) == "cleanup"

BreakOutcomeBudgetOnLastTurn(t, why) == IF t = MAX_TURNS THEN "STOPPED_BUDGET" ELSE why

\* a break leaves the loop past its else branch, on whichever turn it happens:
\* the run ends the way the break's branch logged
BreakOutcome(t, why) == why

\* The body of the loop up to execute_function_calls: the model request, the
\* checks of its response and the decision between finishing and acting.
ModelCall ==
    /\ pc = "turn"
    /\ modelCalls' = modelCalls + 1
    /\ \E r \in ModelResponses :
          /\ response' = r.kind
          /\ CASE r.kind = "raise" ->
                    /\ outcome' = BreakOutcome(turn, "STOPPED_ERROR")
                    /\ pc' = AfterModelError(turn)
                    /\ UNCHANGED <<contents, candidate, idx, results, calls, raised,
                                   finalAnswer>>
               [] r.kind = "empty" ->
                    /\ outcome' = BreakOutcome(turn, "STOPPED_ERROR")
                    /\ pc' = AfterNoCandidates(turn)
                    /\ UNCHANGED <<contents, candidate, idx, results, calls, raised,
                                   finalAnswer>>
               [] r.kind = "candidate" ->
                    /\ contents' = AppendEntry(contents, ReplyEntry(r.content))
                    /\ candidate' = r.content
                    /\ IF has_function_calls(r.content)
                       THEN /\ idx' = 1
                            /\ results' = <<>>
                            /\ calls' = <<>>
                            /\ pc' = "exec"
                            /\ UNCHANGED <<outcome, raised, finalAnswer>>
                       ELSE IF ExtractRaises(r.content.parts)
                       THEN /\ raised' = "AttributeError"
                            /\ pc' = "cleanup"
                            /\ UNCHANGED <<idx, results, calls, outcome, finalAnswer>>
                       ELSE /\ finalAnswer' = extract_text_response(r.content.parts)
                            /\ outcome' = BreakOutcome(turn, "FINISHED")
                            /\ pc' = "cleanup"
                            /\ UNCHANGED <<idx, results, calls, raised>>
    /\ UNCHANGED <<logging, run, io, api_key, browser, closeCount, turn, faults, actionsRun, url>>

FunctionCalls == collect_function_calls(candidate)

\* a successful click or Enter takes the page to another location
UrlAfter(u, issued) ==
    IF \E j \in 1..Len(issued) :
          issued[j].ok /\ (issued[j].op = "click" \/ issued[j].key = "Enter")
    THEN QUOTE_URL ELSE u

NextIndexAbortOnError(i, n, action_result) ==
    IF "error" \in DOMAIN action_result THEN n + 1 ELSE i + 1

\* the for loop goes on to the next function call, whatever the result was
NextIndex(i, n, action_result) == i + 1

\* One iteration of the loop of execute_function_calls.
ExecuteCall ==
    /\ pc = "exec"
    /\ idx <= Len(FunctionCalls)
    /\ LET fc == FunctionCalls[idx] IN
       \E failAt \in {0} \cup FailPoints(fc) :
          LET d == Dispatch(fc, failAt) IN
          /\ failAt # 0 => faults < MaxFaults
          /\ faults' = IF failAt # 0 THEN faults + 1 ELSE faults
          /\ calls' = LogAfter(calls, d.issued, idx)
          /\ results' = RecordResult(results, fc.name, d.result)
          /\ url' = UrlAfter(url, d.issued)
          /\ idx' = NextIndex(idx, Len(FunctionCalls), d.result)
    /\ actionsRun' = actionsRun + 1
    /\ UNCHANGED <<logging, run, io, pc, api_key, browser, closeCount, contents, turn, modelCalls,
                   candidate, outcome, raised, finalAnswer, response>>

NextTurnValueStuck(t) == t

\* the next value of range(1, MAX_TURNS + 1)
NextTurnValue(t) == t + 1

AfterObserveStopOnError(t, res) ==
    IF \E i \in 1..Len(res) : "error" \in DOMAIN res[i].result THEN "cleanup"
    ELSE IF LoopHasNext(t) THEN "turn" ELSE "cleanup"

\* where the loop goes after the body of a turn: to the next turn, or out by
\* its else branch when the turns are used up; the results play no part
AfterObserve(t, res) == IF LoopHasNext(t) THEN "turn" ELSE "cleanup"

\* execute_function_calls returns; get_function_responses builds the
\* observations (its screenshot may fail), they are appended to the
\* conversation and the loop goes to its next turn or runs out of turns.
Observe ==
    /\ pc = "exec"
    /\ idx > Len(FunctionCalls)
    /\ \E shot \in BOOLEAN :
          /\ ~shot => faults < MaxFaults
          /\ faults' = IF shot THEN faults ELSE faults + 1
          /\ calls' = LogAfter(calls, ObservationSteps(shot, results), 0)
          /\ contents' = AppendEntry(contents,
                 ObservationEntry(get_function_responses(ScreenshotBytes(shot), url, results)))
    /\ pc' = AfterObserve(turn, results)
    /\ IF pc' = "turn"
       THEN turn' = NextTurnValue(turn) /\ outcome' = outcome
       ELSE turn' = turn /\ outcome' = "STOPPED_BUDGET"
    /\ UNCHANGED <<logging, run, io, api_key, browser, closeCount, modelCalls, candidate, idx, results,
                   raised, finalAnswer, actionsRun, url, response>>

CloseBrowserNoFinally(b, exc) == IF exc = "none" THEN "closed" ELSE b

\* finally: browser.close(), whether or not an exception is propagating
CloseBrowser(b, exc) == "closed"

AfterCloseResumeLoop(t) == IF t \in 1..(MAX_TURNS - 1) THEN "turn" ELSE "done"

\* browser.close() is the last statement of run_agent: the finally clause
\* stands after the loop, and the call returns (or re-raises) after it
AfterClose(t) == "done"

Cleanup ==
    /\ pc = "cleanup"
    /\ browser' = CloseBrowser(browser, raised)
    /\ closeCount' = IF browser' = "closed" THEN closeCount + 1 ELSE closeCount
    /\ pc' = AfterClose(turn)
    /\ UNCHANGED <<logging, run, io, api_key, contents, turn, modelCalls, candidate, idx, results,
                   calls, faults, outcome, raised, finalAnswer, actionsRun, url, response>>

Next == Start \/ Launch \/ Navigate \/ ModelCall \/ ExecuteCall \/ Observe \/ Cleanup

Spec == Init /\ [][Next]_vars

(***************************************************************************)
(* Two calls of run_agent in one process, one after the other.             *)
(***************************************************************************)
EntryValueKept(unbound, old) == old

\* a local of run_agent at the entry of a call: unbound, whatever value the
\* previous call left in its own local of that name
EntryValue(unbound, old) == unbound

\* run_agent has returned or raised; it is called a second time, with the
\* environment (the API key) of the process as it is
RunAgain ==
    /\ pc = "done"
    /\ run = 1
    /\ run' = run + 1
    /\ pc' = "start"
    /\ browser' = EntryValue("none", browser)
    /\ contents' = EntryValue(<<>>, contents)
    /\ turn' = EntryValue(0, turn)
    /\ candidate' = EntryValue(NoContent, candidate)
    /\ idx' = EntryValue(0, idx)
    /\ results' = EntryValue(<<>>, results)
    /\ url' = EntryValue("", url)
    /\ closeCount' = 0
    /\ modelCalls' = 0
    /\ calls' = <<>>
    /\ faults' = 0
    /\ outcome' = "none"
    /\ raised' = "none"
    /\ finalAnswer' = <<>>
    /\ actionsRun' = 0
    /\ response' = "none"
    /\ UNCHANGED <<logging, io, api_key>>

NextRuns == Next \/ RunAgain

SpecRuns == Init /\ [][NextRuns]_vars

(***************************************************************************)
(* execute_function_calls on its own: called with a candidate and a page,  *)
(* as its callers other than run_agent do.                                 *)
(***************************************************************************)
\* n characters "A" but for a NUL in second place
LongText(n) == [i \in 1..n |-> IF i = 2 THEN 0 ELSE 65]

ExecParts ==
    { CallPart("open_web_browser", NoArgs),
      CallPart("click_at", [x |-> IntV(500), y |-> IntV(500)]),
      CallPart("click_at", NoArgs),
      CallPart("click_at", [x |-> NoneV, y |-> IntV(5)]),
      CallPart("type_text_at",
               [x |-> Num(501, 2), y |-> IntV(-100), text |-> StrV(<<72, 105, 0, 10, 27>>),
                press_enter |-> BoolV(TRUE)]),
      CallPart("type_text_at",
               [x |-> IntV(175), y |-> IntV(1500), text |-> StrV(<<12354, 160>>),
                press_enter |-> BoolV(FALSE)]),
      CallPart("type_text_at", [x |-> IntV(1000), y |-> IntV(0), text |-> IntV(12345)]),
      CallPart("type_text_at", [text |-> NoneV, press_enter |-> NoneV]),
      CallPart("type_text_at",
               [x |-> IntV(0), y |-> IntV(1000), text |-> StrV(LongText(MAX_TYPABLE_CHARS + 6))]),
      CallPart("type_text_at", [x |-> IntV(1), y |-> StrV(<<97>>), text |-> StrV(<<97>>)]),
      CallPart("scroll_document", [x |-> IntV(500), y |-> IntV(500)]),
      CallPart("", NoArgs),
      TextPart(<<103, 111>>) }

SeqsUpTo(S, n) == UNION {[1..k -> S] : k \in 0..n}

ExecCandidates == {NoContent} \cup {Content(parts) : parts \in SeqsUpTo(ExecParts, MaxBatch)}

InitExec ==
    /\ pc = "exec"
    /\ api_key = StrV(<<107>>)
    /\ browser = "open"
    /\ closeCount = 0
    /\ contents = <<>>
    /\ turn = 0
    /\ modelCalls = 0
    /\ candidate \in ExecCandidates
    /\ idx = 1
    /\ results = <<>>
    /\ calls = <<>>
    /\ faults = 0
    /\ outcome = "none"
    /\ raised = "none"
    /\ finalAnswer = <<>>
    /\ actionsRun = 0
    /\ url = DEFAULT_START_URL
    /\ response = "none"
    /\ io = NoCall
    /\ run = 1
    /\ logging = FreshLogging

\* return results
ExecReturn ==
    /\ pc = "exec"
    /\ idx > Len(FunctionCalls)
    /\ pc' = "returned"
    /\ UNCHANGED <<logging, run, io, api_key, browser, closeCount, contents, turn, modelCalls, candidate,
                   idx, results, calls, faults, outcome, raised, finalAnswer, actionsRun,
                   url, response>>

NextExec == ExecuteCall \/ ExecReturn

SpecExec == InitExec /\ [][NextExec]_vars

(***************************************************************************)
(* One turn of run_agent that holds actions: the state right after the     *)
(* first reply was appended, then execute_function_calls and the           *)
(* observations, for every batch of ExecCandidates.                        *)
(***************************************************************************)
InitTurn ==
    /\ pc = "exec"
    /\ api_key = StrV(<<107>>)
    /\ browser = "open"
    /\ closeCount = 0
    /\ candidate \in {c \in ExecCandidates : has_function_calls(c)}
    /\ contents = <<SeedEntry, ReplyEntry(candidate)>>
    /\ turn = 1
    /\ modelCalls = 1
    /\ idx = 1
    /\ results = <<>>
    /\ calls = <<>>
    /\ faults = 0
    /\ outcome = "none"
    /\ raised = "none"
    /\ finalAnswer = <<>>
    /\ actionsRun = 0
    /\ url = DEFAULT_START_URL
    /\ response = "candidate"
    /\ io = NoCall
    /\ run = 1
    /\ logging = configure_logging(FreshLogging)

NextTurn == ExecuteCall \/ Observe

SpecTurn == InitTurn /\ [][NextTurn]_vars

(***************************************************************************)
(* The utility functions called on their own, as the unit tests call them: *)
(* no run of the agent is in progress.                                     *)
(***************************************************************************)
runVars == <<run, pc, api_key, browser, closeCount, contents, turn, modelCalls, candidate,
             idx, results, calls, faults, outcome, raised, finalAnswer, actionsRun, url,
             response>>

NoRun ==
    /\ run = 0
    /\ pc = "none"
    /\ api_key = NoneV
    /\ browser = "none"
    /\ closeCount = 0
    /\ contents = <<>>
    /\ turn = 0
    /\ modelCalls = 0
    /\ candidate = NoContent
    /\ idx = 0
    /\ results = <<>>
    /\ calls = <<>>
    /\ faults = 0
    /\ outcome = "none"
    /\ raised = "none"
    /\ finalAnswer = <<>>
    /\ actionsRun = 0
    /\ url = ""
    /\ response = "none"

\* how far below 0 and above 1000 the coordinates tried go
CoordMargin == 3

\* the coordinates tried: the integers and the halves from -CoordMargin to
\* 1000 + CoordMargin
CoordValues ==
    {Num(n, 2) : n \in (-2 * CoordMargin)..(2000 + 2 * CoordMargin)}

\* distances, in halves, between the two coordinates of a pair: neighbours,
\* and a pair that spans both clamp boundaries
CoordSteps == {1, 2000 + 2 * CoordMargin}

Dimensions == {0, 1, SCREEN_HEIGHT, SCREEN_WIDTH}

\* two coordinates low <= high, to be mapped for the same dimension
InitDenorm ==
    /\ NoRun
    /\ logging = FreshLogging
    /\ \E low \in CoordValues, step \in CoordSteps, dimension \in Dimensions :
          io = [fn |-> "denormalize_coordinate",
                value |-> <<low, Num(low.n + step, 2)>>,
                dimension |-> dimension,
                out |-> <<>>]

\* denormalize_coordinate(value, dimension) on the next coordinate of the pair
Denormalize ==
    /\ io.fn = "denormalize_coordinate"
    /\ Len(io.out) < Len(io.value)
    /\ io' = [io EXCEPT !.out =
                 Append(@, denormalize_coordinate(io.value[Len(io.out) + 1], io.dimension))]
    /\ UNCHANGED <<logging, runVars>>

SpecDenorm == InitDenorm /\ [][Denormalize]_vars

\* the longest of the short texts tried
MaxTextLen == 3

\* NUL, TAB, LF, CR, "A", DEL, NO-BREAK SPACE, HIRAGANA A
TextAlphabet == {0, TAB, NEWLINE, CARRIAGE_RETURN, 65, 127, 160, 12354}

\* the texts tried: None, numbers, a boolean, every short string over the
\* alphabet, and long strings around the limit of MAX_TYPABLE_CHARS kept
\* characters
TextValues ==
    {NoneV, IntV(12345), IntV(0), Num(501, 2), BoolV(TRUE)}
        \cup {StrV(t) : t \in SeqsUpTo(TextAlphabet, MaxTextLen)}
        \cup {StrV(LongText(MAX_TYPABLE_CHARS + k)) : k \in {0, 1, 2, 976}}

InitText ==
    /\ NoRun
    /\ logging = FreshLogging
    /\ \E text \in TextValues :
          io = [fn |-> "sanitize_text", value |-> <<text>>, dimension |-> 0, out |-> <<>>]

\* sanitize_text(text)
Sanitize ==
    /\ io.fn = "sanitize_text"
    /\ io.out = <<>>
    /\ io' = [io EXCEPT !.out = <<sanitize_text(io.value[1])>>]
    /\ UNCHANGED <<logging, runVars>>

SpecText == InitText /\ [][Sanitize]_vars

\* the longest part list tried
MaxParts == 3

\* the parts tried: texts with and without surrounding whitespace, empty and
\* whitespace-only texts, a part without text attribute, and parts whose text
\* attribute is None (a function call, inline data)
TextResponseParts ==
    { TextPart(<<32, 100, 111, 110, 101, 10>>),
      TextPart(<<97, 32, 98>>),
      TextPart(<<46>>),
      TextPart(<<>>),
      TextPart(<<32, 9>>),
      BarePart,
      BlobPart,
      ClickCall }

InitExtract ==
    /\ NoRun
    /\ logging = FreshLogging
    /\ \E parts \in SeqsUpTo(TextResponseParts, MaxParts) :
          io = [fn |-> "extract_text_response", value |-> <<parts>>, dimension |-> 0,
                out |-> <<>>]

\* extract_text_response(parts): the string it returns, or the exception
Extract ==
    /\ io.fn = "extract_text_response"
    /\ io.out = <<>>
    /\ io' = [io EXCEPT !.out =
                 << IF ExtractRaises(io.value[1])
                    THEN [raised |-> "AttributeError", text |-> <<>>]
                    ELSE [raised |-> "none", text |-> extract_text_response(io.value[1])] >>]
    /\ UNCHANGED <<logging, runVars>>

SpecExtract == InitExtract /\ [][Extract]_vars

(***************************************************************************)
(* configure_logging called any number of times in one process, while      *)
(* other code of the process attaches handlers to LOGGER (as the unit test *)
(* does) or to the root logger.                                            *)
(***************************************************************************)
MaxConfigureCalls == 4
MaxHandlers == 2

InitLogging ==
    /\ NoRun
    /\ io = NoCall
    /\ logging = FreshLogging

ConfigureLogging ==
    /\ logging.configureCalls < MaxConfigureCalls
    /\ logging' = configure_logging(logging)
    /\ UNCHANGED <<io, runVars>>

\* LOGGER.handlers = [handler], done by other code of the process
AddHandler ==
    /\ logging.handlers < MaxHandlers
    /\ logging' = [logging EXCEPT !.handlers = @ + 1]
    /\ UNCHANGED <<io, runVars>>

\* a handler attached to the root logger by other code of the process
AddRootHandler ==
    /\ logging.root < MaxHandlers
    /\ logging' = [logging EXCEPT !.root = @ + 1]
    /\ UNCHANGED <<io, runVars>>

NextLogging == ConfigureLogging \/ AddHandler \/ AddRootHandler

SpecLogging == InitLogging /\ [][NextLogging]_vars

(***************************************************************************)
(* Properties of the agent loop (checked under Spec)                       *)
(***************************************************************************)
Stopped == pc \in {"cleanup", "done"}

RECURSIVE ActionReplyCount(_)
\* the number of replies in a conversation that hold a function call
ActionReplyCount(c) ==
    IF c = <<>> THEN 0
    ELSE (IF Head(c).kind = "reply"
             /\ \E i \in 1..Len(Head(c).content.parts) :
                   Head(c).content.parts[i].kind = "call"
          THEN 1 ELSE 0) + ActionReplyCount(Tail(c))

\* C1: the model is called at most MAX_TURNS (5) times in a run; when the
\* loop was entered and every model call returned a reply holding proposed
\* actions, the run stops only after exactly 5 calls, in STOPPED_BUDGET,
\* without an exception, and no 6th call is made.
C1_AtMostMaxTurnsCalls ==
    /\ modelCalls <= 5
    /\ (Stopped /\ contents # <<>> /\ ActionReplyCount(contents) = modelCalls)
          => (modelCalls = 5 /\ outcome = "STOPPED_BUDGET" /\ raised = "none")

C1_Witness ==
    /\ pc = "done"
    /\ ActionReplyCount(contents) = 5
    /\ modelCalls = 5
    /\ outcome = "STOPPED_BUDGET"

\* C2: once the browser has been launched it is closed exactly once by the
\* time run_agent is left, whatever the exit path (FINISHED, STOPPED_ERROR,
\* STOPPED_BUDGET, an exception from NAVIGATE or from a TURN step); it is
\* never closed twice and never closed while the run is still going.
C2_BrowserReleasedOnce ==
    /\ closeCount <= 1
    /\ (pc = "done" /\ browser # "none") => (browser = "closed" /\ closeCount = 1)
    /\ browser = "none" => closeCount = 0
    /\ pc # "done" => closeCount = 0

C2_Witness ==
    /\ pc = "done"
    /\ raised = "AttributeError"
    /\ modelCalls >= 2
    /\ browser = "closed"
    /\ closeCount = 1

\* C3: when the model request raises, the loop stops in STOPPED_ERROR: the
\* failing turn appends nothing to the conversation and executes no action,
\* afterwards no model call, no action and no append happens, the browser is
\* closed and run_agent returns without an exception; a failure on turn 1
\* leaves zero actions executed.
C3_ModelErrorStopsLoop ==
    /\ [](response = "raise" =>
            /\ outcome = "STOPPED_ERROR"
            /\ Stopped
            /\ raised = "none"
            /\ Len(contents) = 2 * modelCalls - 1
            /\ (pc = "done" => browser = "closed" /\ closeCount = 1)
            /\ (modelCalls = 1 => actionsRun = 0))
    /\ [][response' = "raise" =>
            /\ contents' = contents
            /\ actionsRun' = actionsRun
            /\ calls' = calls
            /\ (response = "raise" => modelCalls' = modelCalls)]_vars

C3_Witness ==
    /\ response = "raise"
    /\ pc = "done"
    /\ modelCalls = 3
    /\ actionsRun > 0
    /\ browser = "closed"

\* C4: when the model request returns an empty candidate list, the loop stops
\* in STOPPED_ERROR: the turn leaves the conversation unchanged and executes
\* no action, afterwards no model call is made, and run_agent returns without
\* an exception.
C4_NoCandidatesStopsLoop ==
    /\ [](response = "empty" =>
            /\ outcome = "STOPPED_ERROR"
            /\ Stopped
            /\ raised = "none"
            /\ Len(contents) = 2 * modelCalls - 1)
    /\ [][response' = "empty" =>
            /\ contents' = contents
            /\ actionsRun' = actionsRun
            /\ calls' = calls
            /\ (response = "empty" => modelCalls' = modelCalls)]_vars

C4_Witness ==
    /\ response = "empty"
    /\ pc = "done"
    /\ modelCalls = 2
    /\ Len(contents) = 3
    /\ raised = "none"

\* C5: when the model's reply holds no proposed action, the reply is the last
\* entry of the conversation, the loop is in FINISHED and no exception leaves
\* run_agent.
C5_TextReplyFinishes ==
    (response = "candidate" /\ Stopped /\ ~has_function_calls(candidate))
    => /\ contents[Len(contents)] = ReplyEntry(candidate)
       /\ outcome = "FINISHED"
       /\ raised = "none"

(***************************************************************************)
(* Properties of execute_function_calls (checked under SpecExec)           *)
(***************************************************************************)
RECURSIVE ProposedNames(_)
\* the names of the proposed actions of a reply, in the order of its parts
ProposedNames(parts) ==
    IF parts = <<>> THEN <<>>
    ELSE (IF Head(parts).kind = "call" THEN <<Head(parts).name>> ELSE <<>>)
         \o ProposedNames(Tail(parts))

\* the automation calls issued for the function call at position i, in order
ActionCalls(i) ==
    LET mine == SelectSeq(calls, LAMBDA c : c.action = i)
    IN  [j \in 1..Len(mine) |-> mine[j].call]

Ops(cs) == [j \in 1..Len(cs) |-> cs[j].op]

CountOp(cs, op) == Cardinality({j \in 1..Len(cs) : cs[j].op = op})

AllowListed(fname) == fname \in {"open_web_browser", "click_at", "type_text_at"}

SomeCallRaised(i) == \E j \in 1..Len(ActionCalls(i)) : ~ActionCalls(i)[j].ok

IsOk(r) == r.result = [status |-> "ok"]

IsError(r) == DOMAIN r.result = {"error"} /\ r.result.error # ""

\* C6: execute_function_calls returns exactly one result per proposed action
\* of the reply, in the order of the reply's parts, each under the name of its
\* action, for every mix of supported, unsupported and failing actions.
C6_OneResultPerAction ==
    LET names == ProposedNames(candidate.parts) IN
    /\ Len(results) <= Len(names)
    /\ \A i \in 1..Len(results) : results[i].name = names[i]
    /\ pc = "returned" => Len(results) = Len(names)

C6_Witness ==
    /\ pc = "returned"
    /\ Len(candidate.parts) = 2
    /\ Len(results) = 2
    /\ results[1].result = [error |-> "unsupported_function"]
    /\ results[2].name = "type_text_at"
    /\ results[2].result = [error |-> "type failed"]

\* C7: an action whose name is not allow-listed gets the result
\* {error: "unsupported_function"} and no automation call at all is issued
\* for it: no click, key press, key type, load-state wait or settle delay.
C7_UnsupportedIsInert ==
    \A i \in 1..Len(results) :
        ~AllowListed(results[i].name) =>
            /\ results[i].result = [error |-> "unsupported_function"]
            /\ ActionCalls(i) = <<>>

C7_Witness ==
    /\ pc = "returned"
    /\ Len(results) = 2
    /\ results[1].name = "click_at"
    /\ IsOk(results[1])
    /\ results[2].name = "scroll_document"
    /\ Len(calls) = 3

\* C8: an exception raised while dispatching an action (by the coordinate
\* mapping or by an automation call, the load-state wait included) becomes an
\* {error: <message>} result of that action alone: an allow-listed action in
\* which nothing raised still gets {status: ok}, every later action is still
\* dispatched and recorded, and no exception leaves execute_function_calls.
C8_ErrorsStayLocal ==
    /\ raised = "none"
    /\ pc = "returned" => Len(results) = Len(ProposedNames(candidate.parts))
    /\ \A i \in 1..Len(results) :
          LET fc == FunctionCalls[i]
              threw == SomeCallRaised(i) \/ MapperRaises(fc.name, fc.args)
          IN  /\ threw => IsError(results[i])
              /\ (AllowListed(fc.name) /\ ~threw) =>
                    (IsOk(results[i]) /\ ActionCalls(i) # <<>>)

C8_Witness ==
    /\ pc = "returned"
    /\ Len(results) = 2
    /\ SomeCallRaised(1)
    /\ IsError(results[1])
    /\ results[2].name = "click_at"
    /\ IsOk(results[2])
    /\ Ops(ActionCalls(2)) = <<"click", "wait_for_load_state", "sleep">>

\* the press-enter flag of a function call is true
PressEnterIsTrue(args) == "press_enter" \in DOMAIN args /\ args.press_enter = BoolV(TRUE)

\* C9: a successful "type at" action issues one click at the mapped pixel,
\* the key presses Meta+A (select all) and Backspace (delete), one key type
\* of the sanitized text and then an Enter key press exactly when the
\* press-enter flag is true: 3 key presses with the flag true, 2 with it
\* false or absent, one key type either way.
C9_TypeAtSequence ==
    \A i \in 1..Len(results) :
        (results[i].name = "type_text_at" /\ IsOk(results[i])) =>
            LET cs == ActionCalls(i)
                a == FunctionCalls[i].args
                enter == PressEnterIsTrue(a)
            IN  /\ Ops(cs) = <<"click", "press", "press", "type">>
                          \o (IF enter THEN <<"press">> ELSE <<>>)
                          \o <<"wait_for_load_state", "sleep">>
                /\ cs[1].x = denormalize_coordinate(Get(a, "x", IntV(0)), 1440)
                /\ cs[1].y = denormalize_coordinate(Get(a, "y", IntV(0)), 900)
                /\ cs[2].key = "Meta+A"
                /\ cs[3].key = "Backspace"
                /\ cs[4].text = sanitize_text(Get(a, "text", StrV(<<>>)))
                /\ enter => cs[5].key = "Enter"
                /\ CountOp(cs, "press") = (IF enter THEN 3 ELSE 2)
                /\ CountOp(cs, "type") = 1
                /\ CountOp(cs, "click") = 1

C9_Witness ==
    /\ pc = "returned"
    /\ Len(results) = 2
    /\ results[1].name = "type_text_at" /\ IsOk(results[1])
    /\ PressEnterIsTrue(FunctionCalls[1].args)
    /\ CountOp(ActionCalls(1), "press") = 3
    /\ results[2].name = "type_text_at" /\ IsOk(results[2])
    /\ "press_enter" \notin DOMAIN FunctionCalls[2].args
    /\ CountOp(ActionCalls(2), "press") = 2

\* C10: for every allow-listed action none of whose dispatch steps raised
\* (result {status: ok}) the executor has issued, as the last two calls of the
\* action, exactly one load-state wait (timeout 5000 ms) and then exactly one
\* settle delay of 1.0 s; only allow-listed actions get {status: ok}, and an
\* unsupported action gets neither a wait nor a delay.
C10_SettleAfterSuccess ==
    \A i \in 1..Len(results) :
        LET cs == ActionCalls(i) IN
        /\ IsOk(results[i]) =>
              /\ AllowListed(results[i].name)
              /\ Len(cs) >= 2
              /\ cs[Len(cs) - 1].op = "wait_for_load_state"
              /\ cs[Len(cs) - 1].arg = 5000
              /\ cs[Len(cs)].op = "sleep"
              /\ cs[Len(cs)].arg = 1
              /\ CountOp(cs, "wait_for_load_state") = 1
              /\ CountOp(cs, "sleep") = 1
        /\ ~AllowListed(results[i].name) =>
              /\ CountOp(cs, "wait_for_load_state") = 0
              /\ CountOp(cs, "sleep") = 0

C10_Witness ==
    /\ pc = "returned"
    /\ Len(results) = 2
    /\ results[1].name = "open_web_browser"
    /\ IsOk(results[1])
    /\ Ops(ActionCalls(1)) = <<"wait_for_load_state", "sleep">>
    /\ results[2].name = "scroll_document"
    /\ ActionCalls(2) = <<>>

\* positions of the log held by the calls of action i (0: the observation)
PositionsOf(i) == {p \in 1..Len(calls) : calls[p].action = i}

\* C11: the actions of one batch run strictly one after the other: no
\* automation call of a later action is issued before an earlier action has
\* finished (its settle delay when it succeeded, its raising call when it
\* failed), and the screenshot of the turn is captured only after the last
\* action's settle delay.
C11_ActionsSequential ==
    /\ \A p, q \in 1..Len(calls) :
          (p < q /\ calls[q].action # 0) =>
              (calls[p].action # 0 /\ calls[p].action <= calls[q].action)
    /\ \A i \in 1..Len(results) :
          IsOk(results[i]) =>
              \E s \in PositionsOf(i) :
                  /\ calls[s].call = Sleep
                  /\ \A q \in 1..Len(calls) :
                        (calls[q].action > i \/ calls[q].action = 0) => s < q
    /\ \A q \in PositionsOf(0) : pc # "exec" /\ Len(results) = Len(FunctionCalls)

C11_Witness ==
    /\ pc = "turn"
    /\ Len(results) = 2
    /\ results[1].name = "type_text_at"
    /\ results[2].name = "click_at"
    /\ IsOk(results[1])
    /\ IsOk(results[2])
    /\ Ops(ActionCalls(0)) = <<"screenshot", "url">>
    /\ Len(calls) = 12

\* the observation entry appended by the turn, once it is appended
LastEntry == contents[Len(contents)]

Observed == pc # "exec" /\ LastEntry.kind = "observation"

\* C12: get_function_responses on N results makes exactly one screenshot
\* capture and exactly one read of the page location, whatever N is, and all
\* N entries carry that one screenshot and that one location.
C12_OneScreenshotOneUrl ==
    /\ ~Observed => ActionCalls(0) = <<>>
    /\ Observed =>
          LET frs == LastEntry.responses IN
          /\ CountOp(ActionCalls(0), "screenshot") = 1
          /\ CountOp(ActionCalls(0), "url") = 1
          /\ Len(ActionCalls(0)) = 2
          /\ Len(frs) = Len(results)
          /\ \A i, j \in 1..Len(frs) :
                /\ frs[i].data = frs[j].data
                /\ frs[i].response.url = frs[j].response.url
          /\ \A i \in 1..Len(frs) :
                /\ frs[i].response.url = url
                /\ frs[i].data = (IF ActionCalls(0)[1].ok THEN "png" ELSE "")

C12_Witness ==
    /\ Observed
    /\ Len(LastEntry.responses) = 2
    /\ LastEntry.responses[1].data = "png"
    /\ LastEntry.responses[2].data = "png"
    /\ LastEntry.responses[1].response.url = QUOTE_URL
    /\ IsError(results[2])

\* the screenshot capture of the turn raised
ScreenshotFailed ==
    \E j \in 1..Len(ActionCalls(0)) :
        ActionCalls(0)[j].op = "screenshot" /\ ~ActionCalls(0)[j].ok

\* the fields of an action's result are fields of the payload, unchanged
CarriesResult(payload, result) ==
    \A k \in DOMAIN result : k \in DOMAIN payload /\ payload[k] = result[k]

\* C13: when the screenshot capture fails, get_function_responses does not
\* raise: it returns one entry per input result, in order, each carrying its
\* action's name and result fields and an empty image payload; the
\* observation turn is appended and the loop goes on to its next turn.
C13_ScreenshotFailureTolerated ==
    ScreenshotFailed =>
        /\ raised = "none"
        /\ Observed
        /\ Len(contents) = 3
        /\ Len(LastEntry.responses) = Len(results)
        /\ \A i \in 1..Len(results) :
              /\ LastEntry.responses[i].name = results[i].name
              /\ CarriesResult(LastEntry.responses[i].response, results[i].result)
              /\ LastEntry.responses[i].data = ""
              /\ LastEntry.responses[i].mime_type = "image/png"
        /\ pc = "turn"
        /\ turn = 2
        /\ outcome = "none"

C13_Witness ==
    /\ ScreenshotFailed
    /\ pc = "turn"
    /\ Len(results) = 2
    /\ IsOk(results[1])
    /\ IsError(results[2])
    /\ LastEntry.responses[1].data = ""
    /\ LastEntry.responses[2].response.error = results[2].result.error

\* C14: get_function_responses returns one entry per input result, in the
\* same order, each with the name of its action and a payload that is the
\* current location merged with the result's fields: every payload holds the
\* location key together with exactly one of status or error.
C14_PayloadIsUrlPlusResult ==
    Observed =>
        LET frs == LastEntry.responses IN
        /\ Len(frs) = Len(results)
        /\ \A i \in 1..Len(frs) :
              /\ frs[i].name = results[i].name
              /\ frs[i].name = FunctionCalls[i].name
              /\ DOMAIN frs[i].response = {"url"} \cup DOMAIN results[i].result
              /\ frs[i].response.url = url
              /\ CarriesResult(frs[i].response, results[i].result)
              /\ \/ DOMAIN frs[i].response = {"url", "status"}
                 \/ DOMAIN frs[i].response = {"url", "error"}

C14_Witness ==
    /\ Observed
    /\ Len(LastEntry.responses) = 2
    /\ LastEntry.responses[1].name = "click_at"
    /\ LastEntry.responses[1].response = [url |-> QUOTE_URL, status |-> "ok"]
    /\ LastEntry.responses[2].name = "scroll_document"
    /\ LastEntry.responses[2].response =
          [url |-> QUOTE_URL, error |-> "unsupported_function"]

\* sequence a is an initial part of sequence b
IsPrefix(a, b) == Len(a) <= Len(b) /\ SubSeq(b, 1, Len(a)) = a

\* C15: the conversation is append-only and grows by exactly two entries (the
\* reply, then the observations) on every turn that holds actions, and by
\* none once the loop has decided to stop: the n-th model call is made with
\* the full conversation of 2n - 1 entries, seed first.
C15_ConversationGrowth ==
    /\ [][IsPrefix(contents, contents')]_vars
    /\ [][Stopped => contents' = contents]_vars
    /\ [][(pc = "turn" /\ modelCalls' = modelCalls + 1) =>
             /\ Len(contents) = 2 * modelCalls' - 1
             /\ contents[1] = SeedEntry
             /\ \A k \in 1..modelCalls :
                   /\ contents[2 * k].kind = "reply"
                   /\ has_function_calls(contents[2 * k].content)
                   /\ contents[2 * k + 1].kind = "observation"]_vars
    /\ [][(pc = "turn" /\ pc' = "exec") =>
             Len(contents') = Len(contents) + 1]_vars
    /\ [][(pc = "exec" /\ pc' # "exec") =>
             Len(contents') = Len(contents) + 1]_vars
    /\ [][(pc = "exec" /\ pc' = "exec") => contents' = contents]_vars

C15_Witness ==
    /\ pc = "exec"
    /\ modelCalls = 3
    /\ Len(contents) = 6
    /\ contents[3].kind = "observation"
    /\ contents[5].kind = "observation"
    /\ contents[6].kind = "reply"

(***************************************************************************)
(* Properties of the utility functions                                     *)
(***************************************************************************)
\* floor(clamp(v, 0, 1000) / 1000 * d) in exact arithmetic, v = n / den
FloorOfClamped(v, d) ==
    LET c == IF v.n < 0 THEN 0 ELSE IF v.n > 1000 * v.den THEN 1000 * v.den ELSE v.n
    IN  (c * d) \div (1000 * v.den)

\* C16: for every coordinate v and dimension d, denormalize_coordinate(v, d)
\* is floor(clamp(v, 0, 1000) / 1000 * d) and lies in [0, d]; values below 0
\* map as 0 and values above 1000 as 1000 (result d).
C16_FloorOfClampedValue ==
    \A k \in 1..Len(io.out) :
        LET v == io.value[k]
            d == io.dimension
        IN  /\ io.out[k] = FloorOfClamped(v, d)
            /\ io.out[k] \in 0..d
            /\ v.n < 0 => io.out[k] = 0
            /\ v.n > 1000 * v.den => io.out[k] = d

\* C17: denormalize_coordinate is monotonically non-decreasing in v for every
\* fixed d >= 0, across the clamp boundaries too: low <= high gives
\* denormalize_coordinate(low, d) <= denormalize_coordinate(high, d).
C17_Monotone ==
    Len(io.out) = 2 => io.out[1] <= io.out[2]

C17_Witness ==
    /\ io.fn = "denormalize_coordinate"
    /\ io.value = <<Num(349, 2), Num(350, 2)>>
    /\ io.dimension = SCREEN_WIDTH
    /\ io.out = <<251, 251>>

\* a character sanitize_text must remove
Removed(c) == ~isprintable(c) /\ c \notin {NEWLINE, CARRIAGE_RETURN, TAB}

\* C18: sanitize_text(raw) is the first 1024 characters of the textual form
\* of raw with every character removed that is neither printable nor a
\* newline, carriage return or tab; an absent input gives the empty string;
\* the output is never longer than 1024 and never holds a removed character.
C18_SanitizedText ==
    io.out # <<>> =>
        LET text == io.value[1]
            out == io.out[1]
            form == IF text.t = "none" THEN <<>> ELSE StrOf(text)
            kept == SelectSeq(form, LAMBDA c : ~Removed(c))
        IN  /\ Len(out) <= 1024
            /\ \A i \in 1..Len(out) : ~Removed(out[i])
            /\ Len(out) = (IF Len(kept) < 1024 THEN Len(kept) ELSE 1024)
            /\ out = SubSeq(kept, 1, Len(out))
            /\ text.t = "none" => out = <<>>

C18_Witness ==
    /\ io.fn = "sanitize_text"
    /\ io.value[1] = StrV(LongText(2000))
    /\ io.out # <<>>
    /\ Len(io.out[1]) = 1024
    /\ \A i \in 1..1024 : io.out[1][i] = 65

\* C19: when the API credential is missing or empty at the start, run_agent
\* fails with a fatal startup error (RuntimeError) before the run begins: no
\* browser is launched, nothing is navigated to and no model call is made.
C19_MissingKeyIsFatal ==
    (api_key \in {NoneV, StrV(<<>>)} /\ pc # "start") =>
        /\ pc = "done"
        /\ raised = "RuntimeError"
        /\ browser = "none"
        /\ closeCount = 0
        /\ url = ""
        /\ contents = <<>>
        /\ modelCalls = 0
        /\ calls = <<>>
        /\ outcome = "none"

C19_Witness ==
    /\ api_key = StrV(<<>>)
    /\ pc = "done"
    /\ raised = "RuntimeError"
    /\ browser = "none"

\* some action of the batch ended with an {error: ...} result
SomeActionFailed == \E i \in 1..Len(results) : IsError(results[i])

\* C20: errors of single actions never stop the loop: a turn in which some
\* or all actions ended with an {error: ...} result neither raises nor sets
\* an outcome while the batch runs, still builds and appends one observation
\* per action, and goes on to the next turn, where the model is called again
\* when turns are left (after the last turn the loop leaves on its budget).
C20_ActionErrorsDoNotStopLoop ==
    /\ []((pc = "exec" /\ SomeActionFailed) => (raised = "none" /\ outcome = "none"))
    /\ [][(pc = "exec" /\ SomeActionFailed /\ idx <= Len(FunctionCalls)) =>
             (pc' = "exec" /\ idx' = idx + 1 /\ Len(results') = Len(results) + 1)]_vars
    /\ [][(pc = "exec" /\ SomeActionFailed /\ idx > Len(FunctionCalls)) =>
             /\ Len(contents') = Len(contents) + 1
             /\ contents'[Len(contents')].kind = "observation"
             /\ Len(contents'[Len(contents')].responses) = Len(results)
             /\ \A i \in 1..Len(results) :
                   IsError(results[i]) =>
                       /\ "error" \in DOMAIN contents'[Len(contents')].responses[i].response
                       /\ contents'[Len(contents')].responses[i].response.error
                             = results[i].result.error
             /\ raised' = "none"
             /\ IF turn < 5
                THEN pc' = "turn" /\ turn' = turn + 1 /\ outcome' = "none"
                ELSE pc' = "cleanup" /\ outcome' = "STOPPED_BUDGET"]_vars
    /\ [](pc = "turn" => (turn <= 5 /\ modelCalls = turn - 1 /\ ENABLED ModelCall))

C20_Witness ==
    /\ pc = "exec"
    /\ modelCalls = 3
    /\ turn = 3
    /\ Len(contents) = 6
    /\ \A i \in 1..Len(contents[3].responses) :
          "error" \in DOMAIN contents[3].responses[i].response
    /\ Len(contents[5].responses) = 2
    /\ "status" \in DOMAIN contents[5].responses[1].response
    /\ "error" \in DOMAIN contents[5].responses[2].response

\* a reply all of whose parts are text parts
TextOnly(content) ==
    /\ content.parts # <<>>
    /\ \A i \in 1..Len(content.parts) : content.parts[i].kind = "text"

\* C21: the run ends in STOPPED_BUDGET if and only if all MAX_TURNS (5) turns
\* produced actions; a run that finishes with a text-only reply, on the 5th
\* turn too, ends in FINISHED, and a run stopped by a model error or by empty
\* candidates ends in STOPPED_ERROR, never in STOPPED_BUDGET.
C21_BudgetIffAllTurnsActed ==
    /\ outcome = "STOPPED_BUDGET" <=>
          (ActionReplyCount(contents) = 5 /\ Len(contents) = 11)
    /\ outcome = "STOPPED_BUDGET" => (modelCalls = 5 /\ Stopped /\ raised = "none")
    /\ (Stopped /\ response = "candidate" /\ TextOnly(candidate)) =>
          (outcome = "FINISHED" /\ raised = "none")
    /\ (Stopped /\ response \in {"raise", "empty"}) => outcome = "STOPPED_ERROR"
    /\ raised # "none" => outcome = "none"

C21_Witness ==
    /\ pc = "done"
    /\ modelCalls = 5
    /\ ActionReplyCount(contents) = 4
    /\ Len(contents) = 10
    /\ TextOnly(candidate)
    /\ outcome = "FINISHED"

\* the run is over: it ended in one of the three outcomes or with an
\* exception, and the browser it launched (if it got that far) is released
Terminated ==
    /\ pc = "done"
    /\ \/ outcome \in {"FINISHED", "STOPPED_ERROR", "STOPPED_BUDGET"} /\ raised = "none"
       \/ outcome = "none" /\ raised # "none"
    /\ browser \in {"none", "closed"}
    /\ browser = "closed" <=> closeCount = 1

\* How far the run is from its end, as a tuple ordered lexicographically:
\* the stage of run_agent, the turns left after this one, whether the model
\* is still to be called on this turn, the function calls still to process.
Measure ==
    LET stage == CASE pc = "start" -> 5
                   [] pc = "launch" -> 4
                   [] pc = "navigate" -> 3
                   [] pc \in {"turn", "exec"} -> 2
                   [] pc = "cleanup" -> 1
                   [] pc = "done" -> 0
        inLoop == pc \in {"turn", "exec"}
    IN  << stage,
           IF inLoop THEN 5 - turn ELSE 0,
           IF pc = "turn" THEN 1 ELSE 0,
           IF pc = "exec" THEN Len(FunctionCalls) + 1 - idx ELSE 0 >>

\* tuple a comes before tuple b in the lexicographic order
LexLess(a, b) ==
    \E k \in 1..Len(a) : a[k] < b[k] /\ \A j \in 1..(k - 1) : a[j] = b[j]

\* execute_function_calls stands at a function call of the batch: the
\* iteration for it can be taken (at least without a raising call)
AtFunctionCall == pc = "exec" /\ idx \in 1..Len(FunctionCalls)

\* a step of run_agent other than an iteration of execute_function_calls
OtherStep == Start \/ Launch \/ Navigate \/ ModelCall \/ Observe \/ Cleanup

\* C22: every run terminates: provided each external call returns or
\* raises, the run reaches FINISHED, STOPPED_ERROR, STOPPED_BUDGET or an
\* exception exit, and then the cleanup step, after at most MAX_TURNS (5)
\* turns.  Every step of the run strictly decreases a measure that cannot
\* decrease for ever, a run that is not over always has a step to take, and a
\* run that has no step left is over in one of the four ways, its browser
\* released.
C22_RunTerminates ==
    /\ [](turn <= 5 /\ modelCalls <= 5 /\ modelCalls <= turn)
    /\ [](\A k \in 1..4 : Measure[k] >= 0)
    /\ [][LexLess(Measure', Measure)]_vars
    /\ [](pc # "done" => (ENABLED OtherStep \/ AtFunctionCall))
    /\ [](pc = "done" => Terminated)

C22_Witness ==
    /\ Terminated
    /\ outcome = "STOPPED_BUDGET"
    /\ turn = 5
    /\ browser = "closed"
    /\ faults = 2

\* C23: every ActionResult is either {status: ok} or {error: <message>},
\* never both and never neither; it is {status: ok} exactly when the action's
\* name is allow-listed and none of its dispatch steps, the coordinate mapping
\* and the load-state wait included, raised.
C23_OkIffAllowedAndNothingRaised ==
    \A i \in 1..Len(results) :
        LET r == results[i].result
            fc == FunctionCalls[i]
        IN  /\ DOMAIN r = {"status"} \/ DOMAIN r = {"error"}
            /\ "status" \in DOMAIN r => r.status = "ok"
            /\ "status" \in DOMAIN r <=>
                  /\ AllowListed(fc.name)
                  /\ ~MapperRaises(fc.name, fc.args)
                  /\ ~SomeCallRaised(i)

C23_Witness ==
    /\ pc = "returned"
    /\ Len(results) = 2
    /\ results[1].name = "click_at"
    /\ Ops(ActionCalls(1)) = <<"click", "wait_for_load_state">>
    /\ ActionCalls(1)[1].ok
    /\ ~ActionCalls(1)[2].ok
    /\ results[1].result = [error |-> "wait_for_load_state failed"]
    /\ results[2].name = "open_web_browser"
    /\ results[2].result = [status |-> "ok"]

\* the function calls of the batch named fname whose coordinates can be mapped
Mappable(i, fname) ==
    /\ FunctionCalls[i].name = fname
    /\ ~MapperRaises(fname, FunctionCalls[i].args)

\* C24: a click_at action issues exactly one mouse click, at pixel
\* (denormalize(x, 1440), denormalize(y, 900)), and no keyboard call; a
\* missing x or y counts as 0, so a click_at without arguments clicks pixel
\* (0, 0) and, when neither the click nor the wait raises, gets {status: ok}.
C24_ClickAtOnePixel ==
    \A i \in 1..Len(results) :
        Mappable(i, "click_at") =>
            LET cs == ActionCalls(i)
                args == FunctionCalls[i].args
                x == IF "x" \in DOMAIN args THEN args.x ELSE IntV(0)
                y == IF "y" \in DOMAIN args THEN args.y ELSE IntV(0)
            IN  /\ CountOp(cs, "click") = 1
                /\ cs[1].op = "click"
                /\ cs[1].x = denormalize_coordinate(x, 1440)
                /\ cs[1].y = denormalize_coordinate(y, 900)
                /\ CountOp(cs, "press") = 0
                /\ CountOp(cs, "type") = 0
                /\ args = NoArgs => (cs[1].x = 0 /\ cs[1].y = 0)
                /\ (args = NoArgs /\ ~SomeCallRaised(i)) => IsOk(results[i])
                /\ args = [x |-> IntV(500), y |-> IntV(500)] =>
                      (cs[1].x = 720 /\ cs[1].y = 450)

C24_Witness ==
    /\ pc = "returned"
    /\ Len(results) = 2
    /\ FunctionCalls[1].name = "click_at"
    /\ FunctionCalls[1].args = NoArgs
    /\ Ops(ActionCalls(1)) = <<"click", "wait_for_load_state", "sleep">>
    /\ ActionCalls(1)[1].x = 0
    /\ ActionCalls(1)[1].y = 0
    /\ IsOk(results[1])
    /\ FunctionCalls[2].name = "click_at"
    /\ ActionCalls(2)[1].x = 720
    /\ ActionCalls(2)[1].y = 450

\* execute_function_calls stands at a function call named fname
AtCallNamed(fname) == AtFunctionCall /\ FunctionCalls[idx].name = fname

\* C25: an open_web_browser action is a no-op on the page: it issues no mouse
\* click, no key press and no key type, leaves the browser session and the
\* page's location as they were, is still followed by the load-state wait and
\* the settle delay, and gets {status: ok} (when that wait does not raise).
C25_OpenBrowserIsNoOp ==
    /\ [](\A i \in 1..Len(results) :
            FunctionCalls[i].name = "open_web_browser" =>
                LET cs == ActionCalls(i) IN
                /\ CountOp(cs, "click") = 0
                /\ CountOp(cs, "press") = 0
                /\ CountOp(cs, "type") = 0
                /\ cs[1] \in {WaitForLoadState, Raised(WaitForLoadState)}
                /\ IF cs[1].ok
                   THEN cs = <<WaitForLoadState, Sleep>> /\ IsOk(results[i])
                   ELSE Len(cs) = 1 /\ IsError(results[i]))
    /\ [][AtCallNamed("open_web_browser") =>
             (url' = url /\ browser' = browser /\ closeCount' = closeCount)]_vars

C25_Witness ==
    /\ pc = "returned"
    /\ Len(results) = 2
    /\ FunctionCalls[1].name = "click_at"
    /\ IsOk(results[1])
    /\ FunctionCalls[2].name = "open_web_browser"
    /\ IsOk(results[2])
    /\ Ops(ActionCalls(2)) = <<"wait_for_load_state", "sleep">>
    /\ url = QUOTE_URL
    /\ browser = "open"

\* the state of run_agent's locals at the entry of a call, as in Init
AtEntry ==
    /\ pc = "start"
    /\ browser = "none"
    /\ contents = <<>>
    /\ turn = 0
    /\ candidate = NoContent
    /\ idx = 0
    /\ results = <<>>
    /\ url = ""

\* C26: two runs of run_agent share no run state: whatever way the first run
\* ended, the second starts as the first did, launches its own browser
\* session and releases it once, starts from a fresh conversation of one
\* entry and has a fresh budget of 5 turns.
C26_RunsShareNoState ==
    /\ [][run' # run => (AtEntry' /\ api_key' = api_key)]_vars
    /\ [](modelCalls <= 5 /\ turn <= 5 /\ closeCount <= 1)
    /\ [](pc = "turn" =>
            /\ contents[1] = SeedEntry
            /\ Len(contents) = 2 * modelCalls + 1
            /\ turn = modelCalls + 1)
    /\ [](pc \in {"navigate", "turn", "exec", "cleanup"} =>
            (browser = "open" /\ closeCount = 0))
    /\ [](pc = "done" =>
            \/ browser = "closed" /\ closeCount = 1
            \/ browser = "none" /\ closeCount = 0 /\ modelCalls = 0)

C26_Witness ==
    /\ run = 2
    /\ pc = "done"
    /\ outcome = "STOPPED_BUDGET"
    /\ modelCalls = 5
    /\ Len(contents) = 11
    /\ contents[1] = SeedEntry
    /\ browser = "closed"
    /\ closeCount = 1

\* the last call of a sequence of calls
LastCall(cs) == cs[Len(cs)]

\* C27: within one action, the first dispatch step that raises aborts the
\* rest of that action: no later step of the action is issued (for
\* type_text_at, when the click or a key press before the typing raises, the
\* text is never typed and Enter never pressed), the load-state wait and the
\* settle delay are skipped, the earlier steps are not undone, and the result
\* is {error: ...}; an action whose click succeeded and whose load-state wait
\* raised is reported as an error.
C27_FirstRaiseAbortsAction ==
    /\ \A i \in 1..Len(results) :
        SomeCallRaised(i) =>
            LET cs == ActionCalls(i)
                fc == FunctionCalls[i]
                steps == TrySteps(fc.name, fc.args, SCREEN_WIDTH, SCREEN_HEIGHT)
                last == LastCall(cs)
            IN  /\ ~last.ok
                /\ \A j \in 1..(Len(cs) - 1) : cs[j].ok
                /\ Len(cs) <= Len(steps)
                /\ \A j \in 1..(Len(cs) - 1) : cs[j] = steps[j]
                /\ last = Raised(steps[Len(cs)])
                /\ CountOp(cs, "sleep") = 0
                /\ last.op # "wait_for_load_state" => CountOp(cs, "wait_for_load_state") = 0
                /\ (last.op = "click" \/ last.key \in {"Meta+A", "Backspace"}) =>
                      (CountOp(cs, "type") = 0 /\ \A j \in 1..Len(cs) : cs[j].key # "Enter")
                /\ last.op = "type" => \A j \in 1..Len(cs) : cs[j].key # "Enter"
                /\ results[i].result = [error |-> ErrorMessage(last)]
    /\ \A i \in 1..Len(results) :
          MapperRaises(FunctionCalls[i].name, FunctionCalls[i].args) =>
              (ActionCalls(i) = <<>> /\ IsError(results[i]))

C27_Witness ==
    /\ pc = "returned"
    /\ Len(results) = 2
    /\ results[1].name = "type_text_at"
    /\ PressEnterIsTrue(FunctionCalls[1].args)
    /\ Ops(ActionCalls(1)) = <<"click", "press", "press">>
    /\ ActionCalls(1)[2].ok
    /\ LastCall(ActionCalls(1)) = Raised(KeyPress("Backspace"))
    /\ results[1].result = [error |-> "press failed"]
    /\ results[2].name = "click_at"
    /\ Ops(ActionCalls(2)) = <<"click", "wait_for_load_state">>
    /\ IsError(results[2])

\* the text the model supplied with function call i, as a string
SuppliedText(i) ==
    LET args == FunctionCalls[i].args IN
    IF "text" \notin DOMAIN args \/ args.text.t = "none" THEN <<>> ELSE StrOf(args.text)

\* C28: every string handed to the key-type operation of the automation
\* surface is an output of the text sanitizer: it has at most 1024
\* characters and holds no non-printable character other than newline,
\* carriage return and tab, whatever text the model supplied; it is the
\* supplied text without its removed characters, cut to 1024.
C28_TypedTextIsSanitized ==
    \A p \in 1..Len(calls) :
        calls[p].call.op = "type" =>
            LET typed == calls[p].call.text
                kept == SelectSeq(SuppliedText(calls[p].action), LAMBDA c : ~Removed(c))
            IN  /\ Len(typed) <= 1024
                /\ \A j \in 1..Len(typed) : ~Removed(typed[j])
                /\ typed = SubSeq(kept, 1, IF Len(kept) < 1024 THEN Len(kept) ELSE 1024)

C28_Witness ==
    /\ pc = "returned"
    /\ Len(results) = 2
    /\ Len(SuppliedText(1)) = 1030
    /\ Len(ActionCalls(1)) = 6
    /\ Len(ActionCalls(2)) = 7
    /\ ActionCalls(1)[4].op = "type"
    /\ Len(ActionCalls(1)[4].text) = 1024
    /\ IsOk(results[1])
    /\ SuppliedText(2) = <<72, 105, 0, 10, 27>>
    /\ ActionCalls(2)[4].text = <<72, 105, 10>>

\* a call run_agent made on the page before its loop raised
NavigationFailed ==
    \E p \in 1..Len(calls) : calls[p].action = -1 /\ ~calls[p].call.ok

\* C29: when the navigation to the start location or the first screenshot
\* raises, the failure is not recovered (no empty image is substituted): the
\* conversation is not seeded, the model is never called, no action is
\* executed, the browser is released and the exception leaves run_agent.
C29_NavigateFailurePropagates ==
    NavigationFailed =>
        /\ raised \in {"NavigationError", "ScreenshotError"}
        /\ pc \in {"cleanup", "done"}
        /\ contents = <<>>
        /\ modelCalls = 0
        /\ actionsRun = 0
        /\ outcome = "none"
        /\ IF pc = "done"
           THEN browser = "closed" /\ closeCount = 1
           ELSE browser = "open" /\ closeCount = 0

C29_Witness ==
    /\ NavigationFailed
    /\ Ops(ActionCalls(-1)) = <<"goto", "screenshot">>
    /\ raised = "ScreenshotError"
    /\ pc = "done"
    /\ browser = "closed"

\* a step of run_agent that calls the model or the automation surface
ExternalStep == Navigate \/ ModelCall \/ ExecuteCall \/ Observe

\* C30: once the loop has reached a terminal state and the browser session
\* has been released, no automation call (click, key press, type, wait,
\* screenshot, navigate) and no model call is made in that run: every
\* automation call and every model call of a run happens between the launch
\* of the browser and its release.
C30_NoCallsAfterRelease ==
    /\ [][(calls' # calls \/ modelCalls' # modelCalls \/ actionsRun' # actionsRun) =>
             (browser = "open" /\ browser' = "open")]_vars
    /\ [](calls # <<>> => browser # "none")
    /\ [](browser = "closed" => (pc = "done" /\ closeCount = 1))
    /\ [](pc = "done" => ~ENABLED ExternalStep)
    /\ [][browser = "closed" => browser' = "closed"]_vars

C30_Witness ==
    /\ pc = "done"
    /\ browser = "closed"
    /\ modelCalls = 2
    /\ actionsRun = 2
    /\ CountOp(ActionCalls(1), "type") = 1
    /\ CountOp(ActionCalls(0), "screenshot") = 1
    /\ outcome = "FINISHED"

\* a reply that holds both a text part and a function call
MixedReply(content) ==
    /\ \E i \in 1..Len(content.parts) : content.parts[i].kind = "text"
    /\ \E i \in 1..Len(content.parts) : content.parts[i].kind = "call"

\* C31: the loop treats a reply as an action turn if and only if
\* collect_function_calls returns at least one function call for it; so
\* every observation entry of the conversation holds at least one function
\* response, and a reply that mixes text parts with function calls is an
\* action turn whose text is not surfaced as a final answer.
C31_LoopAgreesWithExecutor ==
    /\ [][(pc = "turn" /\ response' = "candidate") =>
             (pc' = "exec" <=> Len(collect_function_calls(candidate')) >= 1)]_vars
    /\ [](pc = "exec" => Len(FunctionCalls) >= 1)
    /\ [](\A k \in 1..Len(contents) :
            contents[k].kind = "observation" =>
                /\ Len(contents[k].responses) >= 1
                /\ Len(contents[k].responses)
                      = Len(collect_function_calls(contents[k - 1].content)))
    /\ [][(pc = "turn" /\ response' = "candidate" /\ MixedReply(candidate')) =>
             (pc' = "exec" /\ finalAnswer' = <<>> /\ outcome' = "none" /\ raised' = "none")]_vars
    /\ [](finalAnswer # <<>> => ~MixedReply(candidate))

C31_Witness ==
    /\ pc = "turn"
    /\ turn = 2
    /\ MixedReply(contents[2].content)
    /\ contents[3].kind = "observation"
    /\ Len(contents[3].responses) = 2
    /\ finalAnswer = <<>>
    /\ outcome = "none"

\* the text a part contributes: its text stripped of surrounding whitespace,
\* nothing for a part without text
Contribution(part) == IF part.kind = "text" THEN Strip(part.text) ELSE <<>>

RECURSIVE JoinedBySpace(_)
\* the non-empty contributions of the parts, in order, one space between them
JoinedBySpace(parts) ==
    IF parts = <<>> THEN <<>>
    ELSE LET rest == JoinedBySpace(Tail(parts))
             first == Contribution(Head(parts))
         IN  IF first = <<>> THEN rest
             ELSE IF rest = <<>> THEN first
             ELSE first \o <<32>> \o rest

\* C32: extract_text_response returns the texts of the parts, each stripped
\* of surrounding whitespace, joined by single spaces in their order; parts
\* with empty, whitespace-only or no text contribute nothing and never make
\* the function fail; an empty part list gives the empty string.
C32_JoinsStrippedTexts ==
    io.out # <<>> =>
        /\ io.out[1].raised = "none"
        /\ io.out[1].text = JoinedBySpace(io.value[1])
        /\ io.value[1] = <<>> => io.out[1].text = <<>>

\* C33: configure_logging configures logging once per process.  Over any
\* sequence of calls: a call made while nothing is configured (the first call
\* of a fresh process) installs the base configuration; a call made while
\* LOGGER has handlers does not call logging.basicConfig and changes nothing;
\* a call made while the root logger has handlers installs nothing; and the
\* base configuration is never installed more than once.
C33_ConfiguredOnce ==
    [][logging'.configureCalls = logging.configureCalls + 1 =>
          /\ (logging.handlers = 0 /\ logging.root = 0) =>
                 (logging'.applied = logging.applied + 1 /\ logging'.root = 1)
          /\ logging.handlers # 0 =>
                 /\ logging'.basicConfigCalls = logging.basicConfigCalls
                 /\ logging'.applied = logging.applied
                 /\ logging'.root = logging.root
          /\ logging.root # 0 =>
                 (logging'.applied = logging.applied /\ logging'.root = logging.root)
          /\ logging'.handlers = logging.handlers
          /\ logging'.applied <= 1]_vars

\* three calls: the first installed the base configuration, the second called
\* logging.basicConfig again to no effect, the third found LOGGER configured
\* and returned at once
C33_Witness ==
    /\ run = 0
    /\ logging.configureCalls = 3
    /\ logging.basicConfigCalls = 2
    /\ logging.applied = 1
    /\ logging.root = 1
    /\ logging.handlers = 1

====
